---- MODULE Spec2Model ----
(***************************************************************************)
(* yeet (src/yeet/main.py): a store-and-forward dead drop over GitHub      *)
(* gists.  `add-receiver` registers a counterpart, `to` signs+encrypts a   *)
(* message with gpg and pushes it to the counterpart's gist through a      *)
(* cached git clone, `from` fetches the counterpart's gist, decrypts it    *)
(* with gpg and checks the VALIDSIG status line against the fingerprint    *)
(* gpg lists for the nickname.                                             *)
(*                                                                         *)
(* Two users ("alice", "bob") each run the program with their own config   *)
(* file, key ring and cache directory; gists are shared.  gpg, git and the *)
(* gist API are external: their results are computed from the modelled     *)
(* key rings / gists, their failures are nondeterministic inputs.          *)
(***************************************************************************)
EXTENDS Integers, Sequences, FiniteSets, TLC

\* ------------------------------------------------------------------ bounds
MaxSigs == 2       \* most signatures on one deposited envelope
MaxKeys == 2       \* most public keys one `gpg --list-keys PATTERN` lists
MaxRev == 2        \* most pushes a gist receives
MaxFiles == 2      \* most files a gist holds

\* ------------------------------------------------------------- vocabulary
Parties == {"alice", "bob"}
Gists == {"g1", "g2"}

\* the git remotes: the gists, and a repository "g1x" whose address has the
\* address of g1 as a part (as in .../abc and .../abcdef)
Stores == Gists \cup {"g1x"}
None == "None"

\* primary-key fingerprint of each user's own (default signing) key;
\* "FM" belongs to a third party.
OwnFpr(p) == IF p = "alice" THEN "FA" ELSE "FB"
Fprs == {"FA", "FB", "FM"}

\* characters of a message: a letter, carriage return, line feed
Chars == {"a", "CR", "LF"}

RECURSIVE SeqsUpTo(_, _)
SeqsUpTo(S, n) ==
    IF n = 0 THEN {<<>>}
    ELSE LET shorter == SeqsUpTo(S, n - 1)
         IN  shorter \cup {Append(s, x) : s \in {t \in shorter : Len(t) = n - 1}, x \in S}

\* ------------------------------------------------------------------ state
VARIABLES
    configFile,   \* [Parties -> Seq(Receiver)]: contents of ~/.config/yeet.conf
    keyStore,     \* [Parties -> [nickname -> lines of gpg --list-keys --with-colons]]
    mailbox,      \* [Gists -> [files: Seq(content), rev: Nat]]: the remote gists
    cache,        \* [Parties -> [nickname -> working copy under ~/.cache/yeet/<nick>/tx]]
    last,         \* the last invocation: its arguments, locals, steps and outcome
    call          \* [Parties -> the call of set_gist a user's process is in, step by step]

vars == <<configFile, keyStore, mailbox, cache, last, call>>

\* class Receiver
Receiver(nickname, rx_gist_id, tx_gist_url) ==
    [nickname |-> nickname, rx_gist_id |-> rx_gist_id, tx_gist_url |-> tx_gist_url]

\* class Config: receivers defaults to the empty list
Config == [receivers |-> <<>>]

\* ------------------------------------------------------ contents of a gist
\* What a gist file holds: either text that is no OpenPGP message for anyone
\* ("garbage"), or an armored OpenPGP message: `plain` encrypted to the key
\* `rcpt`, carrying one verifiable signature per entry of `signers`; `bad`
\* says that it also carries a signature gpg cannot verify, which makes gpg
\* exit non-zero although it decrypts and verifies the others.
Garbage == [kind |-> "garbage", plain |-> <<>>, signers |-> <<>>, rcpt |-> None,
            bad |-> FALSE, salt |-> 0]
NoContent == [kind |-> "none", plain |-> <<>>, signers |-> <<>>, rcpt |-> None,
              bad |-> FALSE, salt |-> 0]
Envelope(plain, signers, rcpt, bad, salt) ==
    [kind |-> "pgp", plain |-> plain, signers |-> signers, rcpt |-> rcpt,
     bad |-> bad, salt |-> salt]

\* ------------------------------------------------------------- text modes
\* Python's universal-newlines translation, applied by every text-mode read
\* (sys.stdin.read(), subprocess.run(..., text=True).stdout): "\r\n" and a
\* lone "\r" both become "\n".
RECURSIVE TranslateNewlines(_)
TranslateNewlines(s) ==
    IF s = <<>> THEN <<>>
    ELSE IF Head(s) = "CR"
         THEN IF Len(s) >= 2 /\ s[2] = "LF"
              THEN <<"LF">> \o TranslateNewlines(SubSeq(s, 3, Len(s)))
              ELSE <<"LF">> \o TranslateNewlines(Tail(s))
         ELSE <<Head(s)>> \o TranslateNewlines(Tail(s))

\* ------------------------------------------------------------ persistence
\* load_config: an empty file gives Config(); otherwise the stored receivers
load_config(p) ==
    IF configFile[p] = <<>> THEN Config ELSE [receivers |-> configFile[p]]

\* a save that writes the record added last and drops the others
save_config_last_only(p, config) ==
    [configFile EXCEPT ![p] = <<config.receivers[Len(config.receivers)]>>]

\* save_config: the file is rewritten with the whole configuration
save_config(p, config) == [configFile EXCEPT ![p] = config.receivers]

\* next((r for r in config.receivers if r.nickname == nickname), None)
NoReceiver == Receiver(None, None, None)

\* the lookup without the comparison of nicknames: the first record is taken
find_receiver_any(receivers, nickname) ==
    IF receivers = <<>> THEN NoReceiver ELSE Head(receivers)

RECURSIVE find_receiver(_, _)
find_receiver(receivers, nickname) ==
    IF receivers = <<>> THEN NoReceiver
    ELSE IF Head(receivers).nickname = nickname THEN Head(receivers)
         ELSE find_receiver(Tail(receivers), nickname)

\* ------------------------------------------------------------ key listing
\* One line of `gpg --list-keys --with-colons`: its record type (field 1)
\* and its field 10, which on an fpr line is the fingerprint.
Line(tag, f9) == [tag |-> tag, f9 |-> f9]

\* gpg's listing of one key: pub, its fingerprint, a uid, a subkey and the
\* subkey's fingerprint.
KeyRec(f) == <<Line("pub", ""), Line("fpr", f), Line("uid", ""),
               Line("sub", ""), Line("fpr", "S" \o f)>>

\* a key listed without --fingerprint records (gpg 1.4 / 2.0 output)
KeyRecNoFpr == <<Line("pub", ""), Line("uid", ""), Line("sub", "")>>

RECURSIVE Concat(_)
Concat(ss) == IF ss = <<>> THEN <<>> ELSE Head(ss) \o Concat(Tail(ss))

\* first index >= from of a line with the tag, 0 when there is none
RECURSIVE IndexOfTag(_, _, _)
IndexOfTag(lines, tag, from) ==
    IF from > Len(lines) THEN 0
    ELSE IF lines[from].tag = tag THEN from
         ELSE IndexOfTag(lines, tag, from + 1)

\* a resolver that does not look at the listing and answers the fingerprint
\* the key had when the nickname was registered
fingerprint_from_pattern_cached(lines) == "FB"

\* fingerprint_from_pattern: one iterator over the lines; the first "pub:"
\* line, then the first "fpr:" line after it, whose field 10 is returned.
fingerprint_from_pattern(lines) ==
    LET pub == IndexOfTag(lines, "pub", 1)
    IN  IF pub = 0 THEN None
        ELSE LET fpr == IndexOfTag(lines, "fpr", pub + 1)
             IN  IF fpr = 0 THEN None ELSE lines[fpr].f9

\* number of public keys in a listing, and of those that carry a fingerprint
NumPub(lines) == Cardinality({i \in 1..Len(lines) : lines[i].tag = "pub"})
NumUsable(lines) ==
    Cardinality({i \in 1..Len(lines) :
        /\ lines[i].tag = "pub"
        /\ i < Len(lines)
        /\ lines[i + 1].tag = "fpr"})

\* the listings gpg can print for one pattern: up to MaxKeys matching keys
\* drawn from fprs (each key once), or one key listed without fingerprint records
KeyListings(fprs) ==
    {Concat([i \in 1..Len(s) |-> KeyRec(s[i])]) :
        s \in {t \in SeqsUpTo(fprs, MaxKeys) :
                  \A i, j \in 1..Len(t) : t[i] = t[j] => i = j}}
        \cup {KeyRecNoFpr}

\* ---------------------------------------------------------- gist read API
\* get_gist: GET /gists/{id}; raise_for_status raises HTTPError when the
\* request fails; next(iter(files)) raises StopIteration when the gist has
\* no file (so the `if not first_file` test, which only an empty file name
\* would fail, never raises its RuntimeError); otherwise the content of the
\* first file.
get_gist(id, reachable) ==
    IF ~reachable THEN [err |-> "HTTPError", content |-> NoContent]
    ELSE IF mailbox[id].files = <<>> THEN [err |-> "StopIteration", content |-> NoContent]
    ELSE [err |-> "ok", content |-> Head(mailbox[id].files)]

\* ------------------------------------------------------------ gpg decrypt
\* Lines gpg writes to --status-fd, as sequences of blank-separated tokens.
ValidSigLine(f) == <<"[GNUPG:]", "VALIDSIG", f, "2024-01-01", f>>
ErrSigLine == <<"[GNUPG:]", "ERRSIG", "0000", "9">>

\* `gpg --batch --yes --status-fd N --decrypt` run by p on a fetched text.
\* A message for p's key decrypts: stdout is the plaintext (read in text
\* mode), the status stream has one VALIDSIG line per verifiable signature;
\* an unverifiable extra signature makes the exit code non-zero.  Anything
\* else fails to decrypt: no plaintext, no VALIDSIG, non-zero exit.
gpg_decrypt(p, encrypted) ==
    IF encrypted.kind = "pgp" /\ encrypted.rcpt = OwnFpr(p)
    THEN [returncode |-> IF encrypted.bad THEN 2 ELSE 0,
          stdout |-> TranslateNewlines(encrypted.plain),
          status |-> <<<<"[GNUPG:]", "DECRYPTION_OKAY">>>>
                     \o [i \in 1..Len(encrypted.signers) |->
                            ValidSigLine(encrypted.signers[i])]
                     \o (IF encrypted.bad THEN <<ErrSigLine>> ELSE <<>>)]
    ELSE [returncode |-> 2,
          stdout |-> <<>>,
          status |-> IF encrypted.kind = "pgp"
                     THEN <<<<"[GNUPG:]", "DECRYPTION_FAILED">>>>
                     ELSE <<<<"[GNUPG:]", "NODATA", "1">>>>]

\* " VALIDSIG " in s: the token occurs with a blank on either side
HasValidSig(s) == \E i \in 2..(Len(s) - 1) : s[i] = "VALIDSIG"

\* fingerprint in sig_line: fingerprints have one length and no blanks, so
\* the substring test is a test for one of the line's tokens
Contains(s, fingerprint) == \E i \in 1..Len(s) : s[i] = fingerprint

\* next((s for s in status if " VALIDSIG " in s), None), as an index
RECURSIVE FirstValidSig(_, _)
FirstValidSig(status, from) ==
    IF from > Len(status) THEN 0
    ELSE IF HasValidSig(status[from]) THEN from
         ELSE FirstValidSig(status, from + 1)

\* check_signature without the comparison against the expected fingerprint
check_signature_any_signer(status, fingerprint) ==
    IF FirstValidSig(status, 1) = 0 THEN "SignatureMissing" ELSE "ok"

\* check_signature without the test for a missing VALIDSIG line
check_signature_unsigned_ok(status, fingerprint) ==
    LET sig == FirstValidSig(status, 1)
    IN  IF sig = 0 THEN "ok"
        ELSE IF fingerprint = None THEN "TypeError"
        ELSE IF ~Contains(status[sig], fingerprint) THEN "SignerMismatch"
        ELSE "ok"

\* The checks of decrypt on the status lines: the first VALIDSIG line is
\* taken; none raises "Unable to verify signature (VALIDSIG not found)"; a
\* fingerprint that is not in the line raises "Signature valid but from
\* different sender"; with fingerprint None the `in` test itself raises
\* TypeError.
check_signature(status, fingerprint) ==
    LET sig == FirstValidSig(status, 1)
    IN  IF sig = 0 THEN "SignatureMissing"
        ELSE IF fingerprint = None THEN "TypeError"
        ELSE IF ~Contains(status[sig], fingerprint) THEN "SignerMismatch"
        ELSE "ok"

\* decrypt: runs gpg, checks the status lines, returns gpg's stdout.  gpg's
\* exit code is not looked at.
decrypt(p, encrypted, fingerprint) ==
    LET proc == gpg_decrypt(p, encrypted)
        err == check_signature(proc.status, fingerprint)
    IN  [err |-> err,
         stdout |-> IF err = "ok" THEN proc.stdout ELSE <<>>,
         returncode |-> proc.returncode,
         status |-> proc.status]

\* ------------------------------------------------------------ gpg encrypt
\* encrypt: `gpg --encrypt --recipient FPR --sign --armor` fed with
\* cleartext.encode().  A message file is opened "rb", so its cleartext is
\* bytes and .encode() raises AttributeError before gpg runs.  When gpg exits
\* non-zero the handler evaluates proc.stderr.read() on a bytes object, which
\* raises AttributeError as well.  Otherwise the armored message: signed by
\* the user's default key, encrypted to the recipient, under a session key
\* gpg draws.
encrypt(p, isBytes, cleartext, receiver_fingerprint, gpgOk, salt) ==
    IF isBytes THEN [err |-> "AttributeError", ran |-> FALSE, out |-> NoContent]
    ELSE IF ~gpgOk THEN [err |-> "AttributeError", ran |-> TRUE, out |-> NoContent]
    ELSE [err |-> "ok", ran |-> TRUE,
          out |-> Envelope(cleartext, <<OwnFpr(p)>>, receiver_fingerprint, FALSE, salt)]

\* ------------------------------------------------------------ git publish
\* A working copy: the remote it tracks (None: the directory is absent), the
\* remote revision its branch was last in step with, its committed tree and
\* whether it holds commits that were never pushed.
NoRepo == [remote |-> None, base |-> 0, head |-> <<>>, ahead |-> FALSE]

\* `url in x` for a line x of `git remote -v`, which holds the address of
\* the tracked remote: true when url is that address or a part of it
UrlIn(url, remote) == url = remote \/ (url = "g1" /\ remote = "g1x")

\* ensure_repo_exists: `git remote -v` fails when the directory is absent;
\* clone when it fails or lists no line holding url.  git clone (check=True)
\* fails when the network does or when the directory already holds a copy.
ensure_repo_exists(repo, url, online) ==
    LET must_clone == repo.remote = None \/ ~UrlIn(url, repo.remote)
    IN  IF ~must_clone THEN [err |-> "ok", repo |-> repo, git |-> <<"remote">>]
        ELSE IF repo.remote # None \/ ~online
        THEN [err |-> "CalledProcessError", repo |-> repo, git |-> <<"remote", "clone">>]
        ELSE [err |-> "ok", git |-> <<"remote", "clone">>,
              repo |-> [remote |-> url, base |-> mailbox[url].rev,
                        head |-> mailbox[url].files, ahead |-> FALSE]]

\* set_repo_message: everything but .git is removed, text.txt is written
set_repo_message(message) == <<message>>

\* a push that, when the remote has moved on, merges: the remote ends up
\* with its files and those of the working copy
git_push_merging(repo, online) ==
    IF ~online
    THEN [err |-> "CalledProcessError", repo |-> repo, pushed |-> FALSE]
    ELSE [err |-> "ok", pushed |-> TRUE,
          repo |-> [repo EXCEPT !.ahead = FALSE,
                                !.base = mailbox[repo.remote].rev + 1,
                                !.head = IF mailbox[repo.remote].rev # repo.base
                                         THEN mailbox[repo.remote].files \o @
                                         ELSE @]]

\* `git add` and `git commit -m updates` on a working copy whose tree has
\* been rewritten: the commit fails when the tree equals the last commit
git_commit(repo, tree) ==
    IF tree = repo.head
    THEN [err |-> "CalledProcessError", repo |-> repo]
    ELSE [err |-> "ok", repo |-> [repo EXCEPT !.head = tree, !.ahead = TRUE]]

\* `git push`: to the remote the copy tracks; refused when the network is
\* down or when that remote has moved on since the copy was last in step
\* with it (the update would not be a fast-forward)
git_push(repo, online) ==
    IF ~online \/ mailbox[repo.remote].rev # repo.base
    THEN [err |-> "CalledProcessError", repo |-> repo, pushed |-> FALSE]
    ELSE [err |-> "ok", pushed |-> TRUE,
          repo |-> [repo EXCEPT !.ahead = FALSE, !.base = @ + 1]]

\* commit_and_push: add, commit, push, each with check=True.  commit fails
\* when the tree equals the last commit; push goes to the remote the copy
\* tracks and fails when the network does or when that remote has moved on
\* since the copy was last in step with it.
commit_and_push(repo, tree, online) ==
    LET c == git_commit(repo, tree)
        u == git_push(c.repo, online)
    IN  IF c.err # "ok"
        THEN [err |-> c.err, repo |-> c.repo, pushed |-> FALSE,
              git |-> <<"add", "commit">>]
        ELSE [err |-> u.err, repo |-> u.repo, pushed |-> u.pushed,
              git |-> <<"add", "commit", "push">>]

\* set_gist: the working copy of the nickname is brought up, its tree
\* replaced by the content, committed and pushed.
set_gist(repo, gist_url, content, online) ==
    LET e == ensure_repo_exists(repo, gist_url, online)
        c == commit_and_push(e.repo, set_repo_message(content), online)
    IN  IF e.err # "ok"
        THEN [err |-> e.err, repo |-> e.repo, pushed |-> FALSE, git |-> e.git]
        ELSE [err |-> c.err, repo |-> c.repo, pushed |-> c.pushed, git |-> e.git \o c.git]

\* ------------------------------------------------------ invocation record
\* What one run of the command line leaves behind: the command and its
\* arguments, the values of the handler's locals, the steps it ran in order,
\* what it wrote to standard output, its outcome and its exit code.
Idle ==
    [op |-> "none", party |-> None, nickname |-> None,
     inputKind |-> None, input |-> <<>>,
     steps |-> <<>>, outcome |-> "none", exit |-> 0, stdout |-> <<>>,
     lines |-> <<>>, fingerprint |-> None, encrypted |-> NoContent,
     returncode |-> -1, status |-> <<>>, url |-> None, pushed |-> FALSE,
     git |-> <<>>, online |-> TRUE]

\* click: a ClickException and an uncaught exception both end the process
\* with exit code 1
ExitCode(outcome) == IF outcome = "ok" THEN 0 ELSE 1

\* from_ with the key listed before the gist is fetched
FromOrderResolveFirst == <<"load_config", "find", "fingerprint_from_pattern", "get_gist",
                           "decrypt", "echo">>

\* the calls a handler makes, in the order of its statements
AddOrder == <<"fingerprint_from_pattern", "load_config", "save_config">>
FromOrder == <<"load_config", "find", "get_gist", "fingerprint_from_pattern",
               "decrypt", "echo">>
ToOrder == <<"load_config", "find", "fingerprint_from_pattern", "read", "encrypt",
             "set_gist">>

\* the calls made up to and including the named one
RECURSIVE UpTo(_, _)
UpTo(order, step) ==
    IF order = <<>> \/ Head(order) = step THEN <<step>>
    ELSE <<Head(order)>> \o UpTo(Tail(order), step)

\* ------------------------------------------------------------ add-receiver
\* add_receiver without the test that a key resolves
add_receiver_check_no_key(fingerprint, dup) ==
    IF dup THEN "DuplicateNickname" ELSE "ok"

\* add_receiver without the test for a nickname already configured
add_receiver_check_no_dup(fingerprint, dup) ==
    IF fingerprint = None \/ fingerprint = "" THEN "NotFound" ELSE "ok"

\* The checks of add_receiver: `if not fingerprint_from_pattern(nickname)`
\* raises "No GPG public key found", then a nickname already among the
\* receivers raises "... is already configured".
add_receiver_check(fingerprint, dup) ==
    IF fingerprint = None \/ fingerprint = "" THEN "NotFound"
    ELSE IF dup THEN "DuplicateNickname"
    ELSE "ok"

\* add_receiver: the key must resolve, then the nickname must be new, then
\* the record is appended and the whole configuration saved.
add_receiver(p, nickname, rx_gist_id, tx_gist_url) ==
    LET lines == keyStore[p][nickname]
        fingerprint == fingerprint_from_pattern(lines)
        config == load_config(p)
        dup == \E i \in 1..Len(config.receivers) : config.receivers[i].nickname = nickname
        r == Receiver(nickname, rx_gist_id, tx_gist_url)
        outcome == add_receiver_check(fingerprint, dup)
    IN  /\ configFile' = IF outcome = "ok"
                         THEN save_config(p, [config EXCEPT !.receivers = Append(@, r)])
                         ELSE configFile
        /\ last' = [Idle EXCEPT !.op = "add", !.party = p, !.nickname = nickname,
                                !.lines = lines, !.fingerprint = fingerprint,
                                !.steps = IF outcome = "NotFound"
                                          THEN UpTo(AddOrder, "fingerprint_from_pattern")
                                          ELSE IF outcome = "DuplicateNickname"
                                          THEN UpTo(AddOrder, "load_config")
                                          ELSE AddOrder,
                                !.outcome = outcome, !.exit = ExitCode(outcome)]
        /\ UNCHANGED <<keyStore, mailbox, cache, call>>

\* -------------------------------------------------------------------- from
\* from_: load the configuration, find the receiver, fetch its gist, list
\* the key for the nickname (the argument of decrypt, evaluated after the
\* fetch), decrypt and verify, echo the plaintext followed by a newline.
from_(p, nickname, reachable) ==
    LET config == load_config(p)
        receiver == find_receiver(config.receivers, nickname)
        fetched == get_gist(receiver.rx_gist_id, reachable)
        lines == keyStore[p][nickname]
        fingerprint == fingerprint_from_pattern(lines)
        d == decrypt(p, fetched.content, fingerprint)
        base == [Idle EXCEPT !.op = "from", !.party = p, !.nickname = nickname]
    IN  /\ last' =
            IF receiver = NoReceiver
            THEN [base EXCEPT !.steps = UpTo(FromOrder, "find"),
                              !.outcome = "NotFound", !.exit = 1]
            ELSE IF fetched.err # "ok"
            THEN [base EXCEPT !.steps = UpTo(FromOrder, "get_gist"),
                              !.outcome = fetched.err, !.exit = 1]
            ELSE [base EXCEPT
                    !.steps = UpTo(FromOrder, IF d.err = "ok" THEN "echo" ELSE "decrypt"),
                    !.lines = lines, !.fingerprint = fingerprint,
                    !.encrypted = fetched.content,
                    !.returncode = d.returncode, !.status = d.status,
                    !.outcome = d.err, !.exit = ExitCode(d.err),
                    !.stdout = IF d.err = "ok" THEN d.stdout \o <<"LF">> ELSE <<>>]
        /\ UNCHANGED <<configFile, keyStore, mailbox, cache, call>>

\* ---------------------------------------------------------------------- to
\* to_: load the configuration, find the receiver, list the key for the
\* nickname, read the message (a file in binary mode, or sys.stdin in text
\* mode), encrypt, publish through set_gist.
to_(p, nickname, inputKind, text, gpgOk, salt, online) ==
    LET config == load_config(p)
        receiver == find_receiver(config.receivers, nickname)
        lines == keyStore[p][nickname]
        fingerprint == fingerprint_from_pattern(lines)
        cleartext == IF inputKind = "stdin" THEN TranslateNewlines(text) ELSE text
        enc == encrypt(p, inputKind = "file", cleartext, fingerprint, gpgOk, salt)
        pub == set_gist(cache[p][nickname], receiver.tx_gist_url, enc.out, online)
        base == [Idle EXCEPT !.op = "to", !.party = p, !.nickname = nickname,
                             !.inputKind = inputKind, !.input = text]
        found == receiver # NoReceiver
        resolved == found /\ fingerprint # None /\ fingerprint # ""
        sealed == resolved /\ enc.err = "ok"
    IN  /\ sealed /\ pub.pushed => mailbox[pub.repo.remote].rev < MaxRev
        /\ last' =
            IF ~found
            THEN [base EXCEPT !.steps = UpTo(ToOrder, "find"),
                              !.outcome = "NotFound", !.exit = 1]
            ELSE IF ~resolved
            THEN [base EXCEPT !.steps = UpTo(ToOrder, "fingerprint_from_pattern"),
                              !.lines = lines, !.fingerprint = fingerprint,
                              !.outcome = "NotFound", !.exit = 1]
            ELSE IF ~sealed
            THEN [base EXCEPT !.steps = UpTo(ToOrder, "encrypt"),
                              !.lines = lines, !.fingerprint = fingerprint,
                              !.returncode = IF enc.ran THEN 2 ELSE -1,
                              !.outcome = enc.err, !.exit = 1]
            ELSE [base EXCEPT !.steps = ToOrder,
                              !.lines = lines, !.fingerprint = fingerprint,
                              !.returncode = 0, !.encrypted = enc.out,
                              !.url = receiver.tx_gist_url,
                              !.git = pub.git, !.pushed = pub.pushed,
                              !.online = online,
                              !.outcome = pub.err, !.exit = ExitCode(pub.err)]
        /\ cache' = IF sealed THEN [cache EXCEPT ![p][nickname] = pub.repo] ELSE cache
        /\ mailbox' = IF sealed /\ pub.pushed
                      THEN [mailbox EXCEPT ![pub.repo.remote] =
                                [files |-> pub.repo.head, rev |-> @.rev + 1]]
                      ELSE mailbox
        /\ UNCHANGED <<configFile, keyStore, call>>

\* ----------------------------------------------------------------- publish
\* set_gist called on its own: the working copy kept for the nickname is
\* brought up for gist_url, the content committed and pushed; the network
\* is up or down for the whole call.  A push adds a revision to the remote
\* the working copy tracks.
publish(p, nickname, gist_url, content, online) ==
    LET pub == set_gist(cache[p][nickname], gist_url, content, online)
    IN  /\ pub.pushed => mailbox[pub.repo.remote].rev < MaxRev
        /\ last' = [Idle EXCEPT !.op = "publish", !.party = p, !.nickname = nickname,
                                !.steps = <<"set_gist">>,
                                !.encrypted = content, !.url = gist_url,
                                !.git = pub.git, !.pushed = pub.pushed,
                                !.online = online,
                                !.outcome = pub.err, !.exit = ExitCode(pub.err)]
        /\ cache' = [cache EXCEPT ![p][nickname] = pub.repo]
        /\ mailbox' = IF pub.pushed
                      THEN [mailbox EXCEPT ![pub.repo.remote] =
                                [files |-> pub.repo.head, rev |-> @.rev + 1]]
                      ELSE mailbox
        /\ UNCHANGED <<configFile, keyStore, call>>

\* --------------------------------------------------- publish, step by step
\* A call of set_gist in progress in a user's process: the statement it is
\* at, its arguments, the git commands run so far, and once it is over its
\* outcome and the revision its push gave the remote.
NoCall ==
    [pc |-> "idle", nickname |-> None, url |-> None, content |-> NoContent,
     git |-> <<>>, outcome |-> "none", rev |-> 0]

\* set_gist is entered
set_gist_begin(p, nickname, gist_url, content) ==
    /\ call[p].pc \in {"idle", "done"}
    /\ call' = [call EXCEPT ![p] =
                   [NoCall EXCEPT !.pc = "ensure_repo_exists", !.nickname = nickname,
                                  !.url = gist_url, !.content = content]]
    /\ UNCHANGED <<configFile, keyStore, mailbox, cache, last>>

\* ensure_repo_exists(repo_path, gist_url): a clone reads the remote once
set_gist_ensure(p, online) ==
    LET c == call[p]
        e == ensure_repo_exists(cache[p][c.nickname], c.url, online)
    IN  /\ c.pc = "ensure_repo_exists"
        /\ cache' = [cache EXCEPT ![p][c.nickname] = e.repo]
        /\ call' = [call EXCEPT ![p] =
                       [c EXCEPT !.git = e.git,
                                 !.pc = IF e.err = "ok" THEN "set_repo_message" ELSE "done",
                                 !.outcome = IF e.err = "ok" THEN "none" ELSE e.err]]
        /\ UNCHANGED <<configFile, keyStore, mailbox, last>>

\* set_repo_message(repo_path, content), then git add and git commit: all
\* three act on the working copy only
set_gist_commit(p) ==
    LET c == call[p]
        m == git_commit(cache[p][c.nickname], set_repo_message(c.content))
    IN  /\ c.pc = "set_repo_message"
        /\ cache' = [cache EXCEPT ![p][c.nickname] = m.repo]
        /\ call' = [call EXCEPT ![p] =
                       [c EXCEPT !.git = @ \o <<"add", "commit">>,
                                 !.pc = IF m.err = "ok" THEN "push" ELSE "done",
                                 !.outcome = IF m.err = "ok" THEN "none" ELSE m.err]]
        /\ UNCHANGED <<configFile, keyStore, mailbox, last>>

\* git push: the remote takes the update or refuses it in one step
set_gist_push(p, online) ==
    LET c == call[p]
        u == git_push(cache[p][c.nickname], online)
    IN  /\ c.pc = "push"
        /\ u.pushed => mailbox[u.repo.remote].rev < MaxRev
        /\ cache' = [cache EXCEPT ![p][c.nickname] = u.repo]
        /\ mailbox' = IF u.pushed
                      THEN [mailbox EXCEPT ![u.repo.remote] =
                                [files |-> u.repo.head, rev |-> @.rev + 1]]
                      ELSE mailbox
        /\ call' = [call EXCEPT ![p] =
                       [c EXCEPT !.git = @ \o <<"push">>, !.pc = "done",
                                 !.outcome = u.err,
                                 !.rev = IF u.pushed THEN mailbox[u.repo.remote].rev + 1
                                         ELSE 0]]
        /\ UNCHANGED <<configFile, keyStore, last>>

\* ------------------------------------------------------------- environment
\* Between two runs of the program no run is under observation: a change
\* made by the environment leaves `last` at Idle.

\* The key ring is maintained outside the program (keys imported, deleted,
\* rotated): the listing gpg prints for a pattern changes.
KeyStoreChange(p, nickname, listing) ==
    /\ keyStore[p][nickname] # listing
    /\ keyStore' = [keyStore EXCEPT ![p][nickname] = listing]
    /\ last' = Idle
    /\ UNCHANGED <<configFile, mailbox, cache, call>>

\* A gist is public and written by others (the counterpart, or whoever
\* holds its credentials): its single file is replaced by a new revision.
Deposit(g, content) ==
    /\ mailbox[g].rev < MaxRev
    /\ mailbox' = [mailbox EXCEPT ![g] = [files |-> <<content>>, rev |-> @.rev + 1]]
    /\ last' = Idle
    /\ UNCHANGED <<configFile, keyStore, cache, call>>

\* A gist is a git repository: a revision pushed by its owner may hold any
\* number of files, none included.
DepositFiles(g, files) ==
    /\ mailbox[g].rev < MaxRev
    /\ mailbox' = [mailbox EXCEPT ![g] = [files |-> files, rev |-> @.rev + 1]]
    /\ last' = Idle
    /\ UNCHANGED <<configFile, keyStore, cache, call>>

\* what others may deposit in a gist read by a user whose key is own: text
\* that is no message, a message for somebody else, or a message for own
\* with up to MaxSigs verifiable signatures by other keys
Deposits(own) ==
    {Garbage, Envelope(<<"a">>, <<"FM">>, "FM", FALSE, 0)} \cup
    {Envelope(<<"a">>, signers, own, bad, 0) :
        signers \in SeqsUpTo(Fprs \ {own}, MaxSigs), bad \in BOOLEAN}

\* ------------------------------------------------------------ specification
Nicknames == {"alice", "bob", "carol"}

\* the messages sent: empty, one character, two lines ended by "\r\n"
Texts == {<<>>, <<"a">>, <<"a", "CR", "LF", "a", "CR", "LF">>}

\* the session keys gpg may draw when it encrypts
Salts == {0, 1}

Init ==
    /\ configFile = [p \in Parties |-> <<>>]
    /\ keyStore = [p \in Parties |-> [n \in Nicknames |->
                        IF n = "alice" THEN KeyRec("FA")
                        ELSE IF n = "bob" THEN KeyRec("FB")
                        ELSE <<>>]]
    /\ mailbox = [g \in Stores |-> [files |-> <<Garbage>>, rev |-> 0]]
    /\ cache = [p \in Parties |-> [n \in Nicknames |-> NoRepo]]
    /\ last = Idle
    /\ call = [p \in Parties |-> NoCall]

\* Receiving: alice registers bob and receives from him; her key ring and
\* the gist she reads change under her.
AddReceiver ==
    \E rx \in Gists, tx \in Gists : rx # tx /\ add_receiver("alice", "bob", rx, tx)

From ==
    \E nickname \in {"bob", "carol"}, reachable \in BOOLEAN :
        from_("alice", nickname, reachable)

KeysChange ==
    \E listing \in KeyListings({"FB", "FM"}) : KeyStoreChange("alice", "bob", listing)

Deposited ==
    \E content \in Deposits("FA") : Deposit("g1", content)

Next == AddReceiver \/ From \/ KeysChange \/ Deposited

Spec == Init /\ [][Next]_vars

\* The registry: alice registers bob and carol with any endpoints while the
\* keys gpg lists for the two nicknames change.
RegAdd ==
    \E nickname \in {"bob", "carol"}, rx \in Gists, tx \in Gists :
        add_receiver("alice", nickname, rx, tx)

RegKeysChange ==
    \E nickname \in {"bob", "carol"}, listing \in KeyListings({"FB", "FM"}) :
        KeyStoreChange("alice", nickname, listing)

NextRegistry == RegAdd \/ RegKeysChange

SpecRegistry == Init /\ [][NextRegistry]_vars

\* Sending: alice registers bob and sends to him; the key gpg lists for
\* "bob" changes, the network comes and goes, and somebody else pushes to
\* the gist she writes.
AliceAdds == add_receiver("alice", "bob", "g1", "g2")

Send ==
    \E inputKind \in {"file", "stdin"}, text \in Texts,
       gpgOk \in BOOLEAN, salt \in Salts, online \in BOOLEAN :
        to_("alice", "bob", inputKind, text, gpgOk, salt, online)

SendKeysChange ==
    \E listing \in KeyListings({"FB"}) : KeyStoreChange("alice", "bob", listing)

OtherPush == Deposit("g2", Garbage)

NextSend == AliceAdds \/ Send \/ SendKeysChange \/ OtherPush

SpecSend == Init /\ [][NextSend]_vars

\* The round trip: alice and bob register each other (bob with either gist
\* as his inbound one), alice sends to bob, bob receives from alice.
BobAdds ==
    \E rx \in Gists, tx \in Gists : rx # tx /\ add_receiver("bob", "alice", rx, tx)

Receive == \E reachable \in BOOLEAN : from_("bob", "alice", reachable)

NextPair == AliceAdds \/ BobAdds \/ Send \/ Receive

SpecPair == Init /\ [][NextPair]_vars

\* Fetching: alice registers bob and receives from him while the gist she
\* reads is replaced by revisions of zero to MaxFiles files.
Snapshot ==
    \E files \in SeqsUpTo({Garbage, Envelope(<<"a">>, <<"FB">>, "FA", FALSE, 0),
                           Envelope(<<>>, <<"FB">>, "FA", FALSE, 1)}, MaxFiles) :
        DepositFiles("g1", files)

NextFetch == AddReceiver \/ From \/ Snapshot

SpecFetch == Init /\ [][NextFetch]_vars

\* Preconditions: alice registers bob, sends to and receives from bob and
\* carol (who is never registered) while the key gpg lists for "bob" comes
\* and goes and somebody else pushes to the gist she writes.
SendAny ==
    \E nickname \in {"bob", "carol"}, inputKind \in {"file", "stdin"},
       gpgOk \in BOOLEAN, salt \in Salts, online \in BOOLEAN :
        to_("alice", nickname, inputKind, <<"a">>, gpgOk, salt, online)

NextPre == AliceAdds \/ SendAny \/ From \/ SendKeysChange \/ OtherPush

SpecPre == Init /\ [][NextPre]_vars

\* Rotation: alice registers bob, sends to him and receives from him while
\* the key gpg lists for "bob" is replaced or removed and messages signed
\* by bob's first key or by another key are deposited in the gist she reads.
SendNow ==
    \E salt \in Salts, online \in BOOLEAN :
        to_("alice", "bob", "stdin", <<"a">>, TRUE, salt, online)

\* a message for alice signed by bob's first key, or by the key that replaces it
SignedMail ==
    \E signer \in {"FB", "FM"} :
        Deposit("g1", Envelope(<<"a">>, <<signer>>, "FA", FALSE, 0))

NextRotate == AliceAdds \/ SendNow \/ From \/ KeysChange \/ SignedMail

SpecRotate == Init /\ [][NextRotate]_vars

\* The registry under all commands: alice registers bob and carol with any
\* endpoints, sends to them and receives from them, while the keys gpg
\* lists for the two nicknames come and go.
FrameKeysChange ==
    \E nickname \in {"bob", "carol"}, listing \in KeyListings({"FB"}) :
        KeyStoreChange("alice", nickname, listing)

SendPlain ==
    \E nickname \in {"bob", "carol"}, gpgOk \in BOOLEAN, online \in BOOLEAN :
        to_("alice", nickname, "stdin", <<"a">>, gpgOk, 0, online)

NextFrame == RegAdd \/ FrameKeysChange \/ SendPlain \/ From

SpecFrame == Init /\ [][NextFrame]_vars

\* Publishing: alice publishes armored messages for bob to any remote
\* through the working copy she keeps for him, the network comes and goes,
\* and somebody else pushes to the gists.
Payloads == {Envelope(<<"a">>, <<"FA">>, "FB", FALSE, salt) : salt \in Salts}

Publish ==
    \E gist_url \in Stores, content \in Payloads, online \in BOOLEAN :
        publish("alice", "bob", gist_url, content, online)

OthersPush == \E g \in Gists : Deposit(g, Garbage)

NextPublish == Publish \/ OthersPush

SpecPublish == Init /\ [][NextPublish]_vars

\* The race: alice and bob, on their own machines, each publish messages
\* for carol to the gist g1, one call after the other; the steps of their
\* calls interleave in any order.  Each message is one gpg has just made,
\* so it differs from the one before; the network is up and nobody else
\* writes to the gist.
Letter(p, salt) == Envelope(<<"a">>, <<OwnFpr(p)>>, "FM", FALSE, salt)

RaceBegin ==
    \E p \in Parties, salt \in Salts :
        /\ cache[p]["carol"].head # <<Letter(p, salt)>>
        /\ set_gist_begin(p, "carol", "g1", Letter(p, salt))

RaceEnsure == \E p \in Parties : set_gist_ensure(p, TRUE)

RaceCommit == \E p \in Parties : set_gist_commit(p)

RacePush == \E p \in Parties : set_gist_push(p, TRUE)

NextRace == RaceBegin \/ RaceEnsure \/ RaceCommit \/ RacePush

SpecRace == Init /\ [][NextRace]_vars

\* ==================================================================== claims
Registered(p, n) == find_receiver(load_config(p).receivers, n) # NoReceiver

\* the fingerprint the key ring resolves for a nickname now
Resolved(p, n) == fingerprint_from_pattern(keyStore[p][n])

\* the first file of the gist a registered nickname is read from
Inbound(p, n) == Head(mailbox[find_receiver(load_config(p).receivers, n).rx_gist_id].files)

\* gpg run by p decrypts the text
Decryptable(p, c) == c.kind = "pgp" /\ c.rcpt = OwnFpr(p)

InSteps(step) == \E i \in 1..Len(last.steps) : last.steps[i] = step

\* position of a call among the calls of the last run, 0 when it was not made
StepAt(step) ==
    IF InSteps(step) THEN CHOOSE i \in 1..Len(last.steps) : last.steps[i] = step ELSE 0

\* the last run was `from n` by p and got a text from the gist
Received(p, n) ==
    /\ last.op = "from" /\ last.party = p /\ last.nickname = n
    /\ Registered(p, n)
    /\ InSteps("decrypt")

\* the case of C1: the text decrypts, is signed, and none of its valid
\* signatures is by the fingerprint resolved for the nickname
ForeignSigner(p, n) ==
    /\ Received(p, n)
    /\ Decryptable(p, Inbound(p, n))
    /\ Inbound(p, n).signers # <<>>
    /\ Resolved(p, n) # None
    /\ \A i \in 1..Len(Inbound(p, n).signers) : Inbound(p, n).signers[i] # Resolved(p, n)

\* C1: `from N` on a text that decrypts and is validly signed, but by a
\* fingerprint other than the one resolved for N, ends in SignerMismatch
\* and prints nothing.
C1_SignerMismatch ==
    \A p \in Parties, n \in Nicknames :
        ForeignSigner(p, n) =>
            /\ last.outcome = "SignerMismatch"
            /\ last.exit # 0
            /\ last.stdout = <<>>

C1_Witness ==
    \E p \in Parties, n \in Nicknames :
        /\ ForeignSigner(p, n)
        /\ ~Inbound(p, n).bad
        /\ last.outcome = "SignerMismatch"

\* C2: `from N` prints plaintext only if gpg decrypted successfully (exit
\* code 0) and reported a valid signature by the fingerprint resolved for N.
C2_ReleaseOnlyVerified ==
    \A p \in Parties, n \in Nicknames :
        (Received(p, n) /\ last.stdout # <<>>) =>
            /\ Decryptable(p, Inbound(p, n))
            /\ last.returncode = 0
            /\ Resolved(p, n) # None
            /\ \E i \in 1..Len(Inbound(p, n).signers) :
                   Inbound(p, n).signers[i] = Resolved(p, n)

\* C3: `from N` on a text gpg cannot decrypt fails with an outcome of its
\* own (DecryptFailure), not with SignatureMissing or SignerMismatch.
C3_DecryptFailureDistinct ==
    \A p \in Parties, n \in Nicknames :
        (Received(p, n) /\ ~Decryptable(p, Inbound(p, n))) =>
            /\ last.exit # 0
            /\ last.outcome \notin {"SignatureMissing", "SignerMismatch"}

\* C4: `from N` on a text that decrypts but for which gpg reports no valid
\* signature fails with SignatureMissing and prints nothing.
C4_SignatureMissing ==
    \A p \in Parties, n \in Nicknames :
        (/\ Received(p, n)
         /\ Decryptable(p, Inbound(p, n))
         /\ Inbound(p, n).signers = <<>>) =>
            /\ last.outcome = "SignatureMissing"
            /\ last.exit # 0
            /\ last.stdout = <<>>

C4_Witness ==
    \E p \in Parties, n \in Nicknames :
        /\ Received(p, n)
        /\ Decryptable(p, Inbound(p, n))
        /\ Inbound(p, n).signers = <<>>
        /\ last.returncode = 0
        /\ last.outcome = "SignatureMissing"

\* C7 as claimed: in every `from N` the identity is resolved before the gist
\* is fetched, and the fetch comes before decrypt-and-verify.
C7_ResolveBeforeFetch ==
    (last.op = "from" /\ InSteps("decrypt")) =>
        /\ 0 < StepAt("fingerprint_from_pattern")
        /\ StepAt("fingerprint_from_pattern") < StepAt("get_gist")
        /\ StepAt("get_gist") < StepAt("decrypt")

\* C7 amended: in every `from N` the registry is read first, then the gist
\* is fetched, then the identity is resolved, then decrypt-and-verify runs;
\* a run whose fetch fails never resolves the identity.
C7_FetchBeforeResolve ==
    last.op = "from" =>
        /\ StepAt("load_config") = 1 /\ StepAt("find") = 2
        /\ InSteps("fingerprint_from_pattern") =>
               /\ 0 < StepAt("get_gist")
               /\ StepAt("get_gist") < StepAt("fingerprint_from_pattern")
        /\ InSteps("decrypt") =>
               /\ 0 < StepAt("fingerprint_from_pattern")
               /\ StepAt("fingerprint_from_pattern") < StepAt("decrypt")
        /\ last.outcome \in {"HTTPError", "StopIteration"} =>
               ~InSteps("fingerprint_from_pattern")
        /\ InSteps("echo") => StepAt("decrypt") < StepAt("echo")

C7_Witness ==
    /\ last.op = "from"
    /\ last.outcome = "ok"
    /\ StepAt("get_gist") = 3 /\ StepAt("fingerprint_from_pattern") = 4
    /\ StepAt("decrypt") = 5 /\ StepAt("echo") = 6

\* nicknames of a registry are pairwise distinct
Distinct(receivers) ==
    \A i, j \in 1..Len(receivers) :
        receivers[i].nickname = receivers[j].nickname => i = j

\* C8: `add-receiver N ...` while the key ring lists no key for N fails with
\* NotFound and leaves the persisted registry as it was.
C8_NoKeyNoMutation ==
    [][\A p \in Parties, n \in Nicknames :
          (/\ last'.op = "add" /\ last'.party = p /\ last'.nickname = n
           /\ NumPub(keyStore[p][n]) = 0) =>
              /\ last'.outcome = "NotFound"
              /\ last'.exit # 0
              /\ configFile' = configFile]_vars

C8_Witness ==
    /\ last.op = "add"
    /\ last.outcome = "NotFound"
    /\ NumPub(keyStore[last.party][last.nickname]) = 0
    /\ configFile[last.party] # <<>>

\* C9 as claimed: nicknames stay pairwise distinct, and `add-receiver N ...`
\* for a registered N fails with DuplicateNickname, the registry unchanged.
C9_DuplicateNickname ==
    [][/\ \A p \in Parties : Distinct(configFile'[p])
       /\ \A p \in Parties, n \in Nicknames :
            (/\ last'.op = "add" /\ last'.party = p /\ last'.nickname = n
             /\ Registered(p, n)) =>
                /\ last'.outcome = "DuplicateNickname"
                /\ configFile' = configFile]_vars

\* C9 amended: nicknames stay pairwise distinct, and `add-receiver N ...`
\* for a registered N fails, the registry unchanged: with DuplicateNickname
\* when a key resolves for N, with NotFound when none does.
C9_DuplicateOrNotFound ==
    [][/\ \A p \in Parties : Distinct(configFile'[p])
       /\ \A p \in Parties, n \in Nicknames :
            (/\ last'.op = "add" /\ last'.party = p /\ last'.nickname = n
             /\ Registered(p, n)) =>
                /\ last'.outcome = IF Resolved(p, n) = None THEN "NotFound"
                                   ELSE "DuplicateNickname"
                /\ last'.exit # 0
                /\ configFile' = configFile]_vars

C9_Witness ==
    /\ last.op = "add"
    /\ last.outcome = "DuplicateNickname"
    /\ Len(configFile[last.party]) = 2
    /\ Distinct(configFile[last.party])

\* C10: the resolver returns a fingerprint only when exactly one usable
\* public key matches the pattern; with none, or with two or more, it
\* returns None (NotFound).
C10_ExactlyOne ==
    last.op = "add" =>
        (last.fingerprint # None <=> NumUsable(last.lines) = 1)

\* the error each step of `to` is specified to fail with
StepError(step) ==
    IF step \in {"find", "fingerprint_from_pattern"} THEN "NotFound"
    ELSE IF step = "encrypt" THEN "CryptoFailure"
    ELSE "CalledProcessError"

\* the order and the no-partial-success part of C6: resolve, encrypt and
\* publish run in this order, nothing runs after a failure (gpg only after
\* the key resolved, git only after gpg succeeded), and exit code 0 is
\* reported only after a push that left the message in the gist
SendOrder ==
    last.op = "to" =>
        /\ InSteps("encrypt") =>
               /\ 0 < StepAt("fingerprint_from_pattern")
               /\ StepAt("fingerprint_from_pattern") < StepAt("encrypt")
               /\ last.fingerprint # None
        /\ InSteps("set_gist") =>
               /\ 0 < StepAt("encrypt")
               /\ StepAt("encrypt") < StepAt("set_gist")
               /\ last.returncode = 0
        /\ ~InSteps("encrypt") => last.returncode = -1
        /\ ~InSteps("set_gist") => last.git = <<>> /\ ~last.pushed
        /\ last.exit = 0 =>
               /\ last.pushed
               /\ last.git[Len(last.git)] = "push"
               /\ mailbox[last.url].files = <<last.encrypted>>
        /\ last.pushed => last.exit = 0

\* C6: `to N` runs resolve, encrypt, publish in this order; a failing step
\* halts the run with that step's error and no later step runs; exit code 0
\* is reported only if the message was pushed to the gist.
C6_SendFlow ==
    /\ SendOrder
    /\ (last.op = "to" /\ last.exit # 0) =>
           last.outcome = StepError(last.steps[Len(last.steps)])

\* C5: alice's successful `to bob` of a text P, from a file or from standard
\* input, followed by bob's `from alice` on the same gist, succeeds and
\* prints P (the newline echo appends is not held against it).
C5_RoundTrip ==
    [][(/\ last.op = "to" /\ last.exit = 0
        /\ last'.op = "from" /\ last'.party = "bob" /\ last'.nickname = "alice"
        /\ Registered("bob", "alice")
        /\ find_receiver(load_config("bob").receivers, "alice").rx_gist_id = last.url
        /\ last'.outcome # "HTTPError") =>
           /\ last'.outcome = "ok"
           /\ last'.stdout \in {last.input, last.input \o <<"LF">>}]_vars

\* a round trip has happened
C5_Reached ==
    /\ last.op = "from" /\ last.party = "bob" /\ last.outcome = "ok"
    /\ last.encrypted.signers = <<"FA">>

\* the errors get_gist is written to raise: HTTPError by raise_for_status,
\* RuntimeError("No file in gist") for a gist without a file
FetchFailure == {"HTTPError", "RuntimeError"}

\* the last run was `from n` by p and called get_gist
Fetched(p, n) ==
    /\ last.op = "from" /\ last.party = p /\ last.nickname = n
    /\ Registered(p, n)
    /\ InSteps("get_gist")

InboundFiles(p, n) == mailbox[find_receiver(load_config(p).receivers, n).rx_gist_id].files

\* C11: a fetch from a gist that holds no file fails with the fetch error
\* (FetchFailure) and with no other outcome; a fetch that succeeds on a
\* gist with one or more files returns the content of the first file.
C11_FetchZeroFiles ==
    \A p \in Parties, n \in Nicknames :
        Fetched(p, n) =>
            /\ InboundFiles(p, n) = <<>> => last.outcome \in FetchFailure
            /\ (InboundFiles(p, n) # <<>> /\ last.outcome \notin FetchFailure) =>
                   /\ InSteps("decrypt")
                   /\ last.encrypted = InboundFiles(p, n)[1]

\* a fetch from a gist of two different files went through
C11_Reached ==
    \E p \in Parties, n \in Nicknames :
        /\ Fetched(p, n)
        /\ Len(InboundFiles(p, n)) = 2
        /\ InboundFiles(p, n)[1] # InboundFiles(p, n)[2]
        /\ last.outcome = "ok"

\* the run `last` (unprimed) and the run last' are two calls of set_gist
\* one after the other with the same arguments, the first successful, the
\* network up during the second
SamePublishAgain ==
    /\ last.op = "publish" /\ last.exit = 0
    /\ last'.op = "publish"
    /\ last'.party = last.party /\ last'.nickname = last.nickname
    /\ last'.url = last.url /\ last'.encrypted = last.encrypted
    /\ last'.online

\* C12: publishing the same content to the same address twice in a row
\* succeeds both times; the gist then holds the single file with these
\* bytes as it did after the first publish, one revision further on.
C12_PublishIdempotent ==
    [][SamePublishAgain =>
          /\ last'.exit = 0
          /\ mailbox'[last.url].files = <<last.encrypted>>
          /\ mailbox'[last.url].files = mailbox[last.url].files
          /\ mailbox'[last.url].rev = mailbox[last.url].rev + 1]_vars

\* the persisted registry of p holds a record for the nickname
InRegistry(p, n) == \E i \in 1..Len(configFile[p]) : configFile[p][i].nickname = n

\* the run last' touched nothing outside the program: no gist fetched, gpg
\* not run on a message, no git command, gists and working copies as before
NoExternalEffect ==
    /\ ~\E i \in 1..Len(last'.steps) :
            last'.steps[i] \in {"get_gist", "decrypt", "encrypt", "set_gist"}
    /\ last'.returncode = -1 /\ last'.status = <<>>
    /\ last'.git = <<>> /\ ~last'.pushed
    /\ last'.stdout = <<>>
    /\ mailbox' = mailbox /\ cache' = cache

\* C13: `to N` and `from N` for a nickname N that is not in the registry
\* fail with NotFound right after the lookup, without a fetch, a gpg run on
\* a message or a publish; `to N` for a registered N for which no key
\* resolves fails with NotFound without encrypting or publishing, the gists
\* unchanged.
C13_Preconditions ==
    [][\A p \in Parties, n \in Nicknames :
          (last'.op \in {"to", "from"} /\ last'.party = p /\ last'.nickname = n) =>
              /\ ~InRegistry(p, n) =>
                     /\ last'.outcome = "NotFound" /\ last'.exit # 0
                     /\ last'.steps = <<"load_config", "find">>
                     /\ NoExternalEffect
              /\ (last'.op = "to" /\ InRegistry(p, n) /\ Resolved(p, n) = None) =>
                     /\ last'.outcome = "NotFound" /\ last'.exit # 0
                     /\ last'.steps = <<"load_config", "find", "fingerprint_from_pattern">>
                     /\ NoExternalEffect]_vars

\* `to bob` failed because no key resolved, after an earlier `to bob` had
\* pushed a message
C13_Witness ==
    /\ last.op = "to" /\ last.nickname = "bob"
    /\ InRegistry("alice", "bob") /\ Resolved("alice", "bob") = None
    /\ last.outcome = "NotFound"
    /\ cache["alice"]["bob"].remote = "g2"
    /\ mailbox["g2"].files # <<Garbage>>

\* C14: a `to N` in which gpg exits non-zero while signing and encrypting
\* fails with CryptoFailure (the "Unable to encrypt message" error that
\* carries gpg's diagnostic text), and no git command is run.
C14_CryptoFailure ==
    (last.op = "to" /\ InSteps("encrypt") /\ last.returncode > 0) =>
        /\ last.outcome = "CryptoFailure"
        /\ last.exit # 0
        /\ ~InSteps("set_gist") /\ last.git = <<>> /\ ~last.pushed

\* gpg exited non-zero in a `to` and nothing was published
C14_Reached ==
    /\ last.op = "to" /\ InSteps("encrypt") /\ last.returncode > 0
    /\ last.exit # 0 /\ last.git = <<>>

\* the primary fingerprints of the keys the key ring lists for a nickname now
Listed(p, n) ==
    {keyStore[p][n][i + 1].f9 : i \in {j \in 1..(Len(keyStore[p][n]) - 1) :
        keyStore[p][n][j].tag = "pub" /\ keyStore[p][n][j + 1].tag = "fpr"}}

\* C15: every `to N` and `from N` works with the key the key ring lists for
\* N when it runs: a `from N` on a message none of whose signatures is by
\* a key listed now is rejected (no output, exit code not 0), whatever was
\* listed earlier; a `to N` fails with NotFound when no key is listed now,
\* and one that succeeds has pushed a message encrypted for a key listed
\* now.
C15_NoIdentityCache ==
    [][\A p \in Parties, n \in Nicknames :
          (last'.party = p /\ last'.nickname = n /\ InRegistry(p, n)) =>
              /\ (/\ last'.op = "from" /\ InSteps("decrypt")'
                  /\ \A i \in 1..Len(Inbound(p, n).signers) :
                         Inbound(p, n).signers[i] \notin Listed(p, n)) =>
                     /\ last'.exit # 0
                     /\ last'.stdout = <<>>
              /\ (last'.op = "from" /\ InSteps("decrypt")') =>
                     last'.fingerprint \in Listed(p, n) \cup {None}
              /\ (last'.op = "to" /\ Listed(p, n) = {}) =>
                     last'.outcome = "NotFound" /\ mailbox' = mailbox
              /\ (last'.op = "to" /\ last'.exit = 0) =>
                     /\ last'.encrypted.rcpt \in Listed(p, n)
                     /\ mailbox'[last'.url].files = <<last'.encrypted>>]_vars

\* bob's key FB has been replaced by FM in alice's key ring: her `to bob` has
\* pushed a message for FM, and her `from bob` has rejected a message
\* signed by FB
C15_Witness ==
    /\ Listed("alice", "bob") = {"FM"}
    /\ mailbox["g2"].files # <<Garbage>> /\ mailbox["g2"].files[1].rcpt = "FM"
    /\ last.op = "from" /\ last.nickname = "bob"
    /\ Inbound("alice", "bob").signers = <<"FB">>
    /\ Decryptable("alice", Inbound("alice", "bob"))
    /\ last.outcome = "SignerMismatch"

\* the parties whose call is over / is over and was pushed
Over == {p \in Parties : call[p].pc = "done"}
Pushed == {p \in Over : call[p].outcome = "ok"}

\* C16: whenever the calls of both senders to the same gist are over, at
\* least one of them was pushed and the gist is the single file of the
\* call pushed last; the other call was either refused at its push (the
\* remote had moved on) and its content is not in the gist, or pushed
\* earlier and overwritten.  The gist never holds more than one file.
C16_LastPushWins ==
    /\ Len(mailbox["g1"].files) = 1
    /\ Over = Parties =>
           /\ Pushed # {}
           /\ \E w \in Pushed :
                  /\ mailbox["g1"].files = <<call[w].content>>
                  /\ mailbox["g1"].rev = call[w].rev
                  /\ \A o \in Parties \ {w} :
                         /\ mailbox["g1"].files # <<call[o].content>>
                         /\ \/ /\ o \notin Pushed
                               /\ call[o].git[Len(call[o].git)] = "push"
                            \/ /\ o \in Pushed
                               /\ call[o].rev < call[w].rev

\* both calls ran at the same time from clones of the same revision: one
\* was pushed, the other one refused
C16_Witness ==
    /\ Over = Parties
    /\ Cardinality(Pushed) = 1
    /\ \A p \in Parties : call[p].git = <<"remote", "clone", "add", "commit", "push">>
    /\ \A p \in Parties : cache[p]["carol"].base <= 1

\* both calls were pushed, one after the other
C16_Overwritten ==
    /\ Pushed = Parties
    /\ mailbox["g1"].rev = 2

\* C17: the config file is empty at first and loads as the empty registry;
\* a successful `add-receiver N RX TX` makes the registry, loaded again, the
\* one loaded before with the record (N, RX, TX) appended at its end; every
\* other run (`to`, `from`, a failed `add-receiver`) and every change
\* outside the program leave the config file as it was.
C17_RegistryFrame ==
    /\ \A p \in Parties : load_config(p) = Config
    /\ [][/\ \A p \in Parties, n \in Nicknames, rx \in Gists, tx \in Gists :
                (add_receiver(p, n, rx, tx) /\ last'.outcome = "ok") =>
                    /\ (load_config(p).receivers)' =
                           Append(load_config(p).receivers, Receiver(n, rx, tx))
                    /\ \A q \in Parties \ {p} : configFile'[q] = configFile[q]
          /\ ~(last'.op = "add" /\ last'.outcome = "ok") =>
                    configFile' = configFile]_vars

\* two records were added, bob's then carol's, and a `to` has since pushed
\* a message
C17_Witness ==
    /\ Len(load_config("alice").receivers) = 2
    /\ load_config("alice").receivers[1].nickname = "bob"
    /\ load_config("alice").receivers[2].nickname = "carol"
    /\ load_config("alice").receivers[1].rx_gist_id # load_config("alice").receivers[2].rx_gist_id
    /\ last.op = "to" /\ last.exit = 0

\* the call last' of set_gist is made with the network up on a working
\* copy that tracks a remote other than the address it is given
TracksElsewhere(p, n) ==
    /\ last'.op = "publish" /\ last'.party = p /\ last'.nickname = n
    /\ last'.online
    /\ cache[p][n].remote \notin {None, last'.url}

\* C18: a call of set_gist whose working copy is absent clones the address
\* and, when it pushes, pushes the content to the address; a call whose
\* working copy tracks another remote clones the address too, succeeds,
\* leaves the content at the address and does not change the remote
\* tracked before.
C18_PublishToAddress ==
    [][\A p \in Parties, n \in Nicknames :
          /\ (/\ last'.op = "publish" /\ last'.party = p /\ last'.nickname = n
              /\ last'.online /\ cache[p][n].remote = None) =>
                 /\ last'.git[2] = "clone"
                 /\ cache'[p][n].remote = last'.url
                 /\ last'.pushed => mailbox'[last'.url].files = <<last'.encrypted>>
          /\ TracksElsewhere(p, n) =>
                 /\ last'.git[2] = "clone"
                 /\ last'.exit = 0
                 /\ cache'[p][n].remote = last'.url
                 /\ mailbox'[last'.url].files = <<last'.encrypted>>
                 /\ mailbox'[cache[p][n].remote] = mailbox[cache[p][n].remote]]_vars

\* the part of C18 about the remote tracked before: a call of set_gist on
\* a working copy that tracks another remote leaves that remote as it was
C18_OldRemoteUntouched ==
    [][\A p \in Parties, n \in Nicknames :
          TracksElsewhere(p, n) =>
              mailbox'[cache[p][n].remote] = mailbox[cache[p][n].remote]]_vars

\* the git commands of a call of set_gist that ran to its end
FullGit == {<<"remote", "add", "commit", "push">>,
            <<"remote", "clone", "add", "commit", "push">>}

IsPrefix(s, t) == Len(s) <= Len(t) /\ SubSeq(t, 1, Len(s)) = s

\* the first half of C19: a call of set_gist that fails stops at the git
\* command that failed, has pushed nothing and leaves the remotes as they
\* were; a call that succeeds ran all its commands
PublishPropagates ==
    [][last'.op = "publish" =>
          /\ last'.git # <<>> /\ \E full \in FullGit : IsPrefix(last'.git, full)
          /\ last'.exit # 0 =>
                 /\ last'.outcome = "CalledProcessError"
                 /\ last'.git[Len(last'.git)] \in {"clone", "commit", "push"}
                 /\ ~last'.pushed
                 /\ mailbox' = mailbox
          /\ last'.exit = 0 => (last'.git \in FullGit /\ last'.pushed)]_vars

\* C19: a call of set_gist that fails stops at the git command that failed
\* and pushes nothing; and a call made on a working copy that an earlier
\* call left with a commit it could not push reports success only if the
\* remote at the address it was given then holds the content it was given.
C19_NoFalseSuccess ==
    [][\A p \in Parties, n \in Nicknames :
          (last'.op = "publish" /\ last'.party = p /\ last'.nickname = n) =>
              /\ last'.exit # 0 =>
                     /\ last'.git[Len(last'.git)] \in {"clone", "commit", "push"}
                     /\ ~last'.pushed
                     /\ mailbox' = mailbox
              /\ (cache[p][n].ahead /\ last'.exit = 0) =>
                     mailbox'[last'.url].files = <<last'.encrypted>>]_vars

====
